---- MODULE Spec2Model ----
(***************************************************************************)
(* Model of src/controllers/user-controllers.js: the six exported request  *)
(* handlers (getUser, createUser, login, getLogin, deleteUser,             *)
(* actualizateUser), the module-private authenticateToken middleware, the  *)
(* users table they query through pool.query, bcrypt hashing and the jose  *)
(* token (SignJWT / jwtVerify).                                            *)
(*                                                                         *)
(* Every export is written  (mw1, mw2, async (req, res) => {...}) : a      *)
(* parenthesised comma expression, whose value is its last operand.  The   *)
(* exported handler is therefore the async function alone; validateUser    *)
(* and authenticateToken are evaluated as names and dropped, never called. *)
(* The handlers below are modelled as what the exports are.                *)
(*                                                                         *)
(* Each await of a handler is a step of its invocation, so invocations     *)
(* interleave at every await as they do on the event loop.                 *)
(***************************************************************************)
EXTENDS Integers, Sequences, FiniteSets, TLC

VARIABLES
    table,      \* the rows of the users table
    nextId,     \* the next value of the id_users sequence
    inflight,   \* the handler invocations being handled, by slot
    issued,     \* tokens login has sent to clients
    deleted,    \* ids a DELETE has removed from the table
    now,        \* the clock, in whole seconds (jose's epoch)
    ticks       \* how often the clock has advanced

vars == <<table, nextId, inflight, issued, deleted, now, ticks>>

(***************************************************************************)
(* Bounds of the model.                                                    *)
(***************************************************************************)
MaxInFlight == 2    \* invocations handled concurrently
MaxId == 2          \* rows ever inserted
MaxTicks == 2       \* advances of the clock
MaxTokens == 1      \* tokens the clients keep
NumSalts == 1       \* distinct bcrypt salts

Slots == 1..MaxInFlight

(***************************************************************************)
(* JavaScript values.                                                      *)
(***************************************************************************)
Undefined == "<undefined>"      \* a field that is absent
NotAString == "<number>"        \* a JSON number in a body field
Falsy(v) == v \in {Undefined, ""}

Digit(d) ==
    CASE d = 0 -> "0" [] d = 1 -> "1" [] d = 2 -> "2" [] d = 3 -> "3"
      [] d = 4 -> "4" [] d = 5 -> "5" [] d = 6 -> "6" [] d = 7 -> "7"
      [] d = 8 -> "8" [] OTHER -> "9"

\* `${user.id_users}` : the decimal text of an integer
RECURSIVE IntToStr(_)
IntToStr(n) == IF n < 10 THEN Digit(n) ELSE IntToStr(n \div 10) \o Digit(n % 10)

\* the integers a text parameter denotes for the id_users column
ParseId(s) == {n \in 0..(MaxId + 1) : IntToStr(n) = s}

(***************************************************************************)
(* bcrypt.                                                                 *)
(***************************************************************************)
Salt(i) == IF i = 1 THEN "saltA." ELSE IF i = 2 THEN "saltB." ELSE "saltC."
Salts == {Salt(i) : i \in 1..NumSalts}

\* bcrypt.hash(data, 10) rejects unless data is a string
HashThrows(data) == data \in {Undefined, NotAString}
BcryptHash(data, salt) == "$2b$10$" \o salt \o data
\* bcrypt.compare recomputes the digest with the salt the digest embeds
BcryptCompare(data, digest) == \E salt \in Salts \cup {Salt(NumSalts + 1)} : BcryptHash(data, salt) = digest

(***************************************************************************)
(* jose.                                                                   *)
(***************************************************************************)
secret == "process.env.secret"
ExpirationTime == 25200     \* '7h', in seconds

SignJWT(id_users, key, t) ==
    [id_users |-> id_users, iat |-> t, exp |-> t + ExpirationTime, key |-> key]
\* a string that is no JWT
Garbage == [id_users |-> Undefined, iat |-> 0, exp |-> 0, key |-> "<none>"]
JwtVerifiesLate(token, key, t) == token.key = key /\ ~(token.exp < t)
\* jwtVerify resolves iff the signature matches the key and exp is in the future
JwtVerifies(token, key, t) == token.key = key /\ ~(token.exp <= t)
Payload(token) == [id_users |-> token.id_users, iat |-> token.iat, exp |-> token.exp]

(***************************************************************************)
(* The users table, through pool.query.                                    *)
(***************************************************************************)
Row(id, name, email, password) ==
    [id_users |-> id, name |-> name, email |-> email, password |-> password]
SelectAll == table
SelectByEmailAny(email) == table
SelectByEmail(email) == {r \in table : r.email = email}
SelectById(id) == {r \in table : r.id_users \in ParseId(id)}
InsertRow(name, email, password) == table \cup {Row(nextId, name, email, password)}
DeleteById(id) == table \ SelectById(id)
UpdateEvery(id, name, email, password) ==
    {Row(r.id_users, name, email, password) : r \in table}
UpdateById(id, name, email, password) ==
    {IF r \in SelectById(id) THEN Row(r.id_users, name, email, password) ELSE r : r \in table}
\* delete user.password
WithoutPassword(r) == [k \in DOMAIN r \ {"password"} |-> r[k]]

(***************************************************************************)
(* Requests, responses and invocations.                                    *)
(***************************************************************************)
Req(authorization, user, id, name, email, password) ==
    [authorization |-> authorization, user |-> user, id |-> id,
     name |-> name, email |-> email, password |-> password]
NoReq == Req(<<>>, <<>>, Undefined, Undefined, Undefined, Undefined)

Text(t) == [kind |-> "text", text |-> t, rows |-> {}, jwt |-> <<>>]
Array(rows) == [kind |-> "array", text |-> "", rows |-> rows, jwt |-> <<>>]
Object(r) == [kind |-> "object", text |-> "", rows |-> {r}, jwt |-> <<>>]
Jwt(token) == [kind |-> "jwt", text |-> "", rows |-> {}, jwt |-> <<token>>]

Invocation(handler, pc, req) ==
    [handler |-> handler, pc |-> pc, req |-> req,
     user |-> <<>>,             \* const user = result.rows[0]
     hashedPassword |-> "",     \* const hashedPassword
     jwt |-> <<>>,              \* the token being signed
     status |-> 0, body |-> Text(""), sent |-> 0,
     queries |-> 0,             \* pool.query calls made
     hashes |-> 0,              \* bcrypt.hash calls made
     failed |-> FALSE,          \* an awaited call has thrown
     gone |-> FALSE,            \* the id it names was deleted before it began
     at |-> 0]                  \* the time jwtVerify read
Idle == Invocation("idle", "idle", NoReq)

Ended(inv) == inv.pc \in {"responded", "rejected", "next"}
Running(inv) == inv.pc # "idle" /\ ~Ended(inv)

\* res.status(status).send(body) / .json(body); res.send(body) has status 200
Respond(inv, status, body) ==
    [inv EXCEPT !.pc = "responded", !.status = status, !.body = body, !.sent = @ + 1]
\* an awaited call threw
Thrown(inv) == [inv EXCEPT !.failed = TRUE]

\* the authorization header and the identity (req.user) a request arrives
\* with: no header, or a token login issued; req.user is undefined unless
\* something upstream of the handler attached the token's claims
Anonymous == <<<<>>, <<>>>>
Bearers == {<<<<t>>, <<>>>> : t \in issued}
Identified == {<<<<t>>, <<Payload(t)>>>> : t \in issued}
PathIds == {IntToStr(i) : i \in 1..MaxId}

\* the id a request names: the path id, else the id of the token it carries
NamedIds(req) ==
    IF req.id # Undefined THEN ParseId(req.id)
    ELSE IF req.authorization # <<>> THEN ParseId(req.authorization[1].id_users)
    ELSE {}

Begin(s, handler, pc, req) ==
    /\ inflight[s].pc = "idle"
    /\ inflight' = [inflight EXCEPT ![s] =
                        [Invocation(handler, pc, req)
                            EXCEPT !.gone = (NamedIds(req) \cap deleted # {})]]

(***************************************************************************)
(* getUser                                                                 *)
(***************************************************************************)
InvokeGetUser(s) ==
    \E a \in {Anonymous} \cup Bearers :
        /\ Begin(s, "getUser", "query",
                 Req(a[1], a[2], Undefined, Undefined, Undefined, Undefined))
        /\ UNCHANGED <<table, nextId, issued, deleted, now, ticks>>

GetUserQuery(s) ==
    LET inv == [inflight[s] EXCEPT !.queries = @ + 1] IN
    /\ inflight[s].handler = "getUser" /\ inflight[s].pc = "query"
    /\ \/ inflight' = [inflight EXCEPT ![s] = Respond(inv, 200, Array(SelectAll))]
       \/ inflight' = [inflight EXCEPT ![s] =
                          Respond(Thrown(inv), 500, Text("Error retrieving users"))]
    /\ UNCHANGED <<table, nextId, issued, deleted, now, ticks>>

(***************************************************************************)
(* createUser                                                              *)
(***************************************************************************)
CreatesPending == Cardinality({t \in Slots : inflight[t].handler = "createUser"
                                              /\ Running(inflight[t])})

CreateBodies ==
    {<<"Ana", "ana@x.com", "pw1">>, <<"Ana", "bob@x.com", "pw1">>,
     <<"Ana", "ana@x.com", NotAString>>}

InvokeCreateUser(s) ==
    \E body \in CreateBodies :
        /\ nextId + CreatesPending <= MaxId
        /\ Begin(s, "createUser", "hash",
                 Req(<<>>, <<>>, Undefined, body[1], body[2], body[3]))
        /\ UNCHANGED <<table, nextId, issued, deleted, now, ticks>>

CreateUserHash(s) ==
    LET inv == [inflight[s] EXCEPT !.hashes = @ + 1] IN
    /\ inflight[s].handler = "createUser" /\ inflight[s].pc = "hash"
    /\ IF HashThrows(inv.req.password)
       THEN inflight' = [inflight EXCEPT ![s] =
                            Respond(Thrown(inv), 500, Text("Error creating user"))]
       ELSE \E salt \in Salts :
                inflight' = [inflight EXCEPT ![s] =
                    [inv EXCEPT !.pc = "insert",
                                !.hashedPassword = BcryptHash(inv.req.password, salt)]]
    /\ UNCHANGED <<table, nextId, issued, deleted, now, ticks>>

CreateUserInsert(s) ==
    LET inv == [inflight[s] EXCEPT !.queries = @ + 1]
        row == Row(nextId, inv.req.name, inv.req.email, inv.hashedPassword) IN
    /\ inflight[s].handler = "createUser" /\ inflight[s].pc = "insert"
    /\ \/ /\ table' = InsertRow(inv.req.name, inv.req.email, inv.hashedPassword)
          /\ nextId' = nextId + 1
          /\ inflight' = [inflight EXCEPT ![s] = Respond(inv, 201, Object(row))]
       \/ /\ inflight' = [inflight EXCEPT ![s] =
                             Respond(Thrown(inv), 500, Text("Error creating user"))]
          /\ UNCHANGED <<table, nextId>>
    /\ UNCHANGED <<issued, deleted, now, ticks>>

(***************************************************************************)
(* login                                                                   *)
(***************************************************************************)
LoginBodies ==
    {<<"ana@x.com", "pw1">>, <<"ana@x.com", "pw2">>, <<"ana@x.com", "">>,
     <<Undefined, "pw1">>}

InvokeLogin(s) ==
    \E body \in LoginBodies :
        LET email == body[1]
            password == body[2]
            req == Req(<<>>, <<>>, Undefined, Undefined, email, password) IN
        /\ IF Falsy(email) \/ Falsy(password)
           THEN /\ inflight[s].pc = "idle"
                /\ inflight' = [inflight EXCEPT ![s] =
                      Respond(Invocation("login", "idle", req), 400,
                              Text("Email y contrasena son requeridos"))]
           ELSE Begin(s, "login", "query", req)
        /\ UNCHANGED <<table, nextId, issued, deleted, now, ticks>>

LoginQuery(s) ==
    LET inv == [inflight[s] EXCEPT !.queries = @ + 1]
        rows == SelectByEmail(inv.req.email) IN
    /\ inflight[s].handler = "login" /\ inflight[s].pc = "query"
    /\ \/ /\ rows = {}
          /\ inflight' = [inflight EXCEPT ![s] = Respond(inv, 401, Text("Email invalido"))]
       \/ \E user \in rows :    \* rows[0]: the SELECT has no ORDER BY
             inflight' = [inflight EXCEPT ![s] =
                             [inv EXCEPT !.pc = "compare", !.user = <<user>>]]
       \/ inflight' = [inflight EXCEPT ![s] =
                          Respond(Thrown(inv), 500, Text("Error al iniciar sesion"))]
    /\ UNCHANGED <<table, nextId, issued, deleted, now, ticks>>

LoginCompare(s) ==
    LET inv == inflight[s]
        user == inv.user[1] IN
    /\ inv.handler = "login" /\ inv.pc = "compare"
    /\ IF ~BcryptCompare(inv.req.password, user.password)
       THEN inflight' = [inflight EXCEPT ![s] =
                            Respond(inv, 401, Text("Contrasena invalida"))]
       ELSE inflight' = [inflight EXCEPT ![s] =
                [inv EXCEPT !.pc = "sign",
                            !.jwt = <<SignJWT(IntToStr(user.id_users), secret, now)>>]]
    /\ UNCHANGED <<table, nextId, issued, deleted, now, ticks>>

LoginSign(s) ==
    LET inv == inflight[s] IN
    /\ inv.handler = "login" /\ inv.pc = "sign"
    /\ inflight' = [inflight EXCEPT ![s] = Respond(inv, 200, Jwt(inv.jwt[1]))]
    /\ issued' = IF Cardinality(issued \cup {inv.jwt[1]}) <= MaxTokens
                 THEN issued \cup {inv.jwt[1]} ELSE issued
    /\ UNCHANGED <<table, nextId, deleted, now, ticks>>

(***************************************************************************)
(* getLogin                                                                *)
(***************************************************************************)
InvokeGetLogin(s) ==
    \E a \in {Anonymous} \cup Bearers \cup Identified :
        LET req == Req(a[1], a[2], Undefined, Undefined, Undefined, Undefined) IN
        /\ IF req.user = <<>>
           \* const { id_users } = req.user throws before the try block: the
           \* promise of the handler rejects and nothing is sent
           THEN /\ inflight[s].pc = "idle"
                /\ inflight' = [inflight EXCEPT ![s] =
                      [Thrown(Invocation("getLogin", "rejected", req))
                          EXCEPT !.gone = (NamedIds(req) \cap deleted # {})]]
           ELSE Begin(s, "getLogin", "query", req)
        /\ UNCHANGED <<table, nextId, issued, deleted, now, ticks>>

GetLoginQuery(s) ==
    LET inv == [inflight[s] EXCEPT !.queries = @ + 1]
        rows == SelectById(inv.req.user[1].id_users) IN
    /\ inflight[s].handler = "getLogin" /\ inflight[s].pc = "query"
    /\ \/ /\ rows = {}
          /\ inflight' = [inflight EXCEPT ![s] =
                             Respond(inv, 401, Text("Usuario no encontrado"))]
       \/ \E user \in rows :
             inflight' = [inflight EXCEPT ![s] =
                 Respond([inv EXCEPT !.user = <<user>>], 200, Object(WithoutPassword(user)))]
       \/ inflight' = [inflight EXCEPT ![s] =
                          Respond(Thrown(inv), 401, Text("Token invalido o expirado"))]
    /\ UNCHANGED <<table, nextId, issued, deleted, now, ticks>>

(***************************************************************************)
(* deleteUser                                                              *)
(***************************************************************************)
InvokeDeleteUser(s) ==
    \E a \in {Anonymous} \cup Bearers, id \in PathIds :
        /\ Begin(s, "deleteUser", "delete",
                 Req(a[1], a[2], id, Undefined, Undefined, Undefined))
        /\ UNCHANGED <<table, nextId, issued, deleted, now, ticks>>

DeleteUserDelete(s) ==
    LET inv == [inflight[s] EXCEPT !.queries = @ + 1]
        rows == SelectById(inv.req.id) IN
    /\ inflight[s].handler = "deleteUser" /\ inflight[s].pc = "delete"
    /\ \/ /\ rows = {}
          /\ inflight' = [inflight EXCEPT ![s] =
                             Respond(inv, 404, Text("Usuario no encontrado"))]
          /\ UNCHANGED <<table, deleted>>
       \/ \E user \in rows :
             /\ table' = DeleteById(inv.req.id)
             /\ deleted' = deleted \cup {r.id_users : r \in rows}
             /\ inflight' = [inflight EXCEPT ![s] =
                    Respond([inv EXCEPT !.user = <<user>>], 200, Object(user))]
       \/ /\ inflight' = [inflight EXCEPT ![s] =
                             Respond(Thrown(inv), 500, Text("Error al eliminar el usuario"))]
          /\ UNCHANGED <<table, deleted>>
    /\ UNCHANGED <<nextId, issued, now, ticks>>

(***************************************************************************)
(* actualizateUser                                                         *)
(***************************************************************************)
MissingDataNoPassword(req) == Falsy(req.name) \/ Falsy(req.email)
\* !name || !email || !password
MissingData(req) == Falsy(req.name) \/ Falsy(req.email) \/ Falsy(req.password)

UpdateBodies ==
    {<<"Bea", "ana@x.com", "pw2">>, <<"Bea", "ana@x.com", NotAString>>,
     <<Undefined, "ana@x.com", "pw2">>, <<"Bea", "", "pw2">>,
     <<"Bea", "ana@x.com", Undefined>>}

InvokeActualizateUser(s) ==
    \E a \in {Anonymous} \cup Bearers, id \in PathIds, body \in UpdateBodies :
        LET req == Req(a[1], a[2], id, body[1], body[2], body[3]) IN
        /\ IF MissingData(req)
           THEN /\ inflight[s].pc = "idle"
                /\ inflight' = [inflight EXCEPT ![s] =
                      [Respond(Invocation("actualizateUser", "idle", req), 401,
                               Text("Faltan datos"))
                          EXCEPT !.gone = (NamedIds(req) \cap deleted # {})]]
           ELSE Begin(s, "actualizateUser", "hash", req)
        /\ UNCHANGED <<table, nextId, issued, deleted, now, ticks>>

ActualizateUserHash(s) ==
    LET inv == [inflight[s] EXCEPT !.hashes = @ + 1] IN
    /\ inflight[s].handler = "actualizateUser" /\ inflight[s].pc = "hash"
    /\ IF HashThrows(inv.req.password)
       THEN inflight' = [inflight EXCEPT ![s] =
                Respond(Thrown(inv), 500, Text("Error al actualizar el usuario"))]
       ELSE \E salt \in Salts :
                inflight' = [inflight EXCEPT ![s] =
                    [inv EXCEPT !.pc = "update",
                                !.hashedPassword = BcryptHash(inv.req.password, salt)]]
    /\ UNCHANGED <<table, nextId, issued, deleted, now, ticks>>

ActualizateUserUpdate(s) ==
    LET inv == [inflight[s] EXCEPT !.queries = @ + 1]
        rows == SelectById(inv.req.id)
        after == UpdateById(inv.req.id, inv.req.name, inv.req.email, inv.hashedPassword) IN
    /\ inflight[s].handler = "actualizateUser" /\ inflight[s].pc = "update"
    /\ \/ /\ rows = {}
          /\ inflight' = [inflight EXCEPT ![s] =
                             Respond(inv, 404, Text("Usuario no encontrado"))]
          /\ UNCHANGED table
       \/ \E old \in rows :
             LET user == Row(old.id_users, inv.req.name, inv.req.email, inv.hashedPassword) IN
             /\ table' = after
             /\ inflight' = [inflight EXCEPT ![s] =
                    Respond([inv EXCEPT !.user = <<user>>], 200, Object(WithoutPassword(user)))]
       \/ /\ inflight' = [inflight EXCEPT ![s] =
                Respond(Thrown(inv), 500, Text("Error al actualizar el usuario"))]
          /\ UNCHANGED table
    /\ UNCHANGED <<nextId, issued, deleted, now, ticks>>

(***************************************************************************)
(* authenticateToken: the middleware as the function it is.  No export     *)
(* calls it, so it is no step of Spec; SpecToken applies it to requests.   *)
(***************************************************************************)
Unauthorized == Text("Token invalido o expirado")

\* what a client can put in the authorization header: a token login issued,
\* one of those with its claim altered, one signed with another key, no token
Tampered(t) == [t EXCEPT !.id_users = "9", !.key = "<none>"]
Presented ==
    issued \cup {Tampered(t) : t \in issued}
           \cup {SignJWT("1", "another key", now), Garbage}

InvokeAuthenticateToken(s) ==
    /\ \/ /\ inflight[s].pc = "idle"
          /\ inflight' = [inflight EXCEPT ![s] =
                Respond(Invocation("authenticateToken", "idle", NoReq), 401,
                        Text("Token no proporcionado"))]
       \/ \E t \in Presented :
             Begin(s, "authenticateToken", "verify",
                   Req(<<t>>, <<>>, Undefined, Undefined, Undefined, Undefined))
    /\ UNCHANGED <<table, nextId, issued, deleted, now, ticks>>

AuthenticateTokenVerify(s) ==
    LET inv == [inflight[s] EXCEPT !.at = now]
        token == inv.req.authorization[1] IN
    /\ inflight[s].handler = "authenticateToken" /\ inflight[s].pc = "verify"
    /\ IF JwtVerifies(token, secret, now)
       THEN inflight' = [inflight EXCEPT ![s] =
                [inv EXCEPT !.pc = "next", !.req.user = <<Payload(token)>>]]
       ELSE inflight' = [inflight EXCEPT ![s] = Respond(Thrown(inv), 401, Unauthorized)]
    /\ UNCHANGED <<table, nextId, issued, deleted, now, ticks>>

(***************************************************************************)
(* The clock.                                                              *)
(***************************************************************************)
Tick ==
    /\ ticks < MaxTicks
    /\ \E d \in {1, ExpirationTime - 1} : now' = now + d
    /\ ticks' = ticks + 1
    /\ UNCHANGED <<table, nextId, inflight, issued, deleted>>

(***************************************************************************)
(* The response reaches the client and the invocation is over.             *)
(***************************************************************************)
Finish(s) ==
    /\ Ended(inflight[s])
    /\ inflight' = [inflight EXCEPT ![s] = Idle]
    /\ UNCHANGED <<table, nextId, issued, deleted, now, ticks>>

Init ==
    /\ table = {}
    /\ nextId = 1
    /\ inflight = [s \in Slots |-> Idle]
    /\ issued = {}
    /\ deleted = {}
    /\ now = 0
    /\ ticks = 0

Next ==
    \E s \in Slots :
        \/ InvokeGetUser(s) \/ GetUserQuery(s)
        \/ InvokeCreateUser(s) \/ CreateUserHash(s) \/ CreateUserInsert(s)
        \/ InvokeLogin(s) \/ LoginQuery(s) \/ LoginCompare(s) \/ LoginSign(s)
        \/ InvokeGetLogin(s) \/ GetLoginQuery(s)
        \/ InvokeDeleteUser(s) \/ DeleteUserDelete(s)
        \/ InvokeActualizateUser(s) \/ ActualizateUserHash(s) \/ ActualizateUserUpdate(s)
        \/ Finish(s)

Spec == Init /\ [][Next]_vars

\* Token issue and verification against the clock, one user registered and
\* one request handled at a time: verification reads the token and the clock
\* only.
InitToken ==
    /\ table = {Row(1, "Ana", "ana@x.com", BcryptHash("pw1", Salt(1)))}
    /\ nextId = 2
    /\ inflight = [s \in Slots |-> Idle]
    /\ issued = {}
    /\ deleted = {}
    /\ now = 0
    /\ ticks = 0

NextToken ==
    \/ Tick
    \/ \E s \in {1} :
        \/ InvokeLogin(s) \/ LoginQuery(s) \/ LoginCompare(s) \/ LoginSign(s)
        \/ InvokeAuthenticateToken(s) \/ AuthenticateTokenVerify(s)
        \/ Finish(s)

SpecToken == InitToken /\ [][NextToken]_vars

(***************************************************************************)
(* Properties.                                                             *)
(***************************************************************************)
Handlers == {"getUser", "createUser", "login", "getLogin", "deleteUser", "actualizateUser"}
AuthRequired == {"getUser", "getLogin", "deleteUser", "actualizateUser"}
StatusCodes == {200, 201, 400, 401, 404, 500}
\* the slots whose invocation took the step
Stepped == {s \in Slots : inflight'[s] # inflight[s]}
\* a store query of the invocation failed
StoreFailed(inv) == inv.failed /\ inv.queries > 0

\* C1: a request to getUser, getLogin, deleteUser or actualizateUser that
\* carries no authorization header, or a value that fails verification, is
\* answered 401 and issues no store query.
C1_UnauthenticatedIs401 ==
    \A s \in Slots :
        LET inv == inflight[s] IN
        ( /\ inv.handler \in AuthRequired
          /\ Ended(inv)
          /\ \/ inv.req.authorization = <<>>
             \/ ~JwtVerifies(inv.req.authorization[1], secret, now) )
        => (inv.status = 401 /\ inv.queries = 0)

\* C2: no response body of any handler contains the stored password hash of
\* a user.
C2_NoHashInResponse ==
    \A s \in Slots :
        LET inv == inflight[s] IN
        (inv.handler \in Handlers /\ inv.sent > 0)
        => \A r \in inv.body.rows :
              "password" \in DOMAIN r => r.password \notin {u.password : u \in table}

\* C3: login with email or password missing answers 400 without a lookup;
\* otherwise, the store not failing: no row with that email, 401 and no
\* token; the row looked up has that email, and if the password does not
\* verify against its hash, 401 and no token; if it verifies, 200 with a
\* token whose claim is the text of that row's id.
LoginOutcome(inv) ==
    (inv.handler = "login" /\ Ended(inv) /\ ~inv.failed) =>
        IF Falsy(inv.req.email) \/ Falsy(inv.req.password)
        THEN inv.status = 400 /\ inv.queries = 0 /\ inv.body.jwt = <<>>
        ELSE IF inv.user = <<>>
        THEN inv.status = 401 /\ inv.body.jwt = <<>>
        ELSE IF ~BcryptCompare(inv.req.password, inv.user[1].password)
        THEN inv.status = 401 /\ inv.body.jwt = <<>>
        ELSE /\ inv.status = 200
             /\ inv.body.jwt # <<>>
             /\ inv.body.jwt[1].key = secret
             /\ ParseId(inv.body.jwt[1].id_users) = {inv.user[1].id_users}
LoginLookup(s) ==
    LET matching == {r \in table : r.email = inflight[s].req.email} IN
    ( /\ inflight[s].handler = "login" /\ inflight[s].pc = "query"
      /\ s \in Stepped /\ ~inflight'[s].failed )
    => IF matching = {}
       THEN inflight'[s].user = <<>> /\ Ended(inflight'[s])
       ELSE inflight'[s].user # <<>> /\ inflight'[s].user[1] \in matching
Verified(inv) == inv.pc = "next" /\ inv.req.user = <<Payload(inv.req.authorization[1])>>
Denied(inv) == inv.pc = "responded" /\ inv.status = 401 /\ inv.body = Unauthorized
UpdateRejected(inv) ==
    ( /\ inv.handler = "actualizateUser"
      /\ Falsy(inv.req.name) \/ Falsy(inv.req.email) \/ Falsy(inv.req.password) )
    => /\ inv.pc = "responded" /\ inv.status = 401 /\ inv.sent = 1
       /\ inv.hashes = 0 /\ inv.queries = 0
C5_MissingFieldNoUpdate ==
    [][\A s \in Slots :
          /\ UpdateRejected(inflight'[s])
          /\ ( /\ s \in Stepped
               /\ inflight'[s].handler = "actualizateUser"
               /\ \/ Falsy(inflight'[s].req.name)
                  \/ Falsy(inflight'[s].req.email)
                  \/ Falsy(inflight'[s].req.password) )
             => table' = table]_vars
C5_Witness ==
    \E s \in Slots :
        /\ inflight[s].handler = "actualizateUser" /\ inflight[s].status = 401
        /\ inflight[s].req.password = Undefined
        /\ \E r \in table : r.id_users \in ParseId(inflight[s].req.id)

\* C6: deleteUser of an id not in the table answers 404; of an id in the
\* table, 200 with the deleted row; and of any request begun after that,
\* getLogin with a token for the id answers 401, and actualizateUser and
\* deleteUser of the id answer 404.
C6_DeletedStaysGone ==
    \A s \in Slots :
        LET inv == inflight[s] IN
        (Ended(inv) /\ ~StoreFailed(inv)) =>
            /\ (inv.handler = "deleteUser" /\ inv.user = <<>>) => inv.status = 404
            /\ (inv.handler = "deleteUser" /\ inv.user # <<>>)
                  => (inv.status = 200 /\ inv.body = Object(inv.user[1]))
            /\ (inv.handler = "deleteUser" /\ inv.gone) => inv.status = 404
            /\ (inv.handler = "actualizateUser" /\ inv.gone /\ inv.hashes > 0 /\ ~inv.failed)
                  => inv.status = 404
            /\ (inv.handler = "getLogin" /\ inv.gone) => inv.status = 401

\* C7: a handler in which a store query, a hashing or comparison, or any
\* other call threw answers 500.
C7_InternalErrorIs500 ==
    \A s \in Slots :
        LET inv == inflight[s] IN
        (inv.handler \in Handlers /\ Ended(inv) /\ inv.failed) => inv.status = 500

\* C8: createUser answering 201 stored the name and the email given and a
\* password that is not the plaintext; login with that email and password
\* answers 200 with a token; getLogin with that token in the authorization
\* header answers 200 with that user's row without a password field.
C8_RegistrationRoundTrip ==
    \A s \in Slots :
        LET inv == inflight[s] IN
        /\ (inv.handler = "createUser" /\ inv.status = 201)
              => \A r \in inv.body.rows :
                    /\ r.name = inv.req.name /\ r.email = inv.req.email
                    /\ r.password # inv.req.password
        /\ ( /\ inv.handler = "getLogin" /\ Ended(inv) /\ ~StoreFailed(inv)
             /\ inv.req.authorization # <<>>
             /\ \E r \in table : r.id_users \in ParseId(inv.req.authorization[1].id_users) )
           => /\ inv.status = 200
              /\ \A r \in inv.body.rows :
                    /\ "password" \notin DOMAIN r
                    /\ r.id_users \in ParseId(inv.req.authorization[1].id_users)

\* C9: an invocation of a handler never ends without a response or with
\* two, and the status of its response is 200, 201, 400, 401, 404 or 500.
C9_ExactlyOneResponse ==
    \A s \in Slots :
        LET inv == inflight[s] IN
        (inv.handler \in Handlers /\ Ended(inv))
        => (inv.sent = 1 /\ inv.status \in StatusCodes)

\* C10: a step changes the table only as the one write of one invocation,
\* which then ends: never of getUser, login or getLogin; of createUser it
\* adds one row with a new id and changes no other; of deleteUser and
\* actualizateUser with path id i it changes no row whose id is not i.
WriteFrame(s) ==
    LET inv == inflight[s] IN
    /\ Running(inv) /\ Ended(inflight'[s])
    /\ inv.handler \in {"createUser", "deleteUser", "actualizateUser"}
    /\ inv.handler = "createUser" =>
          /\ table \subseteq table'
          /\ Cardinality(table' \ table) = 1
          /\ \A r \in table' \ table : \A u \in table : u.id_users # r.id_users
    /\ inv.handler \in {"deleteUser", "actualizateUser"} =>
          \A r \in table \cup table' :
              r.id_users \notin ParseId(inv.req.id) => (r \in table /\ r \in table')
C10_WriteFrame ==
    [][table' # table => (Cardinality(Stepped) = 1 /\ \A s \in Stepped : WriteFrame(s))]_vars
C10_Witness ==
    \E s \in Slots, t \in Slots :
        /\ inflight[s].handler = "actualizateUser" /\ inflight[s].status = 200
        /\ inflight[s].req.authorization # <<>>
        /\ ParseId(inflight[s].req.authorization[1].id_users) # ParseId(inflight[s].req.id)
        /\ inflight[t].handler = "deleteUser" /\ inflight[t].status = 200
        /\ inflight[t].req.id # inflight[s].req.id
====
